---- MODULE Spec2Model ----
(***************************************************************************)
(* Four programs of the tutorial, each with its own variables and its own  *)
(* specification; the variables of the other programs stay at their idle   *)
(* values in it:                                                           *)
(*   Spec, FairSpec, TestSpec, TestFairSpec  the actor runtime (class5)    *)
(*   ArcSpec                                 Arc (class4)                  *)
(*   TreeSpec                                the binary tree (class2)      *)
(*   BigSpec                                 BigUInt (class1)              *)
(*                                                                         *)
(* The async actor runtime of problems/class5/a-actor/src/lib.rs:          *)
(* Addr::send, Inner::send, Context::stop, the Envelope and the test       *)
(* actor Foo are translated from lib.rs.  Actor::start is `todo!()` there  *)
(* and the run loop it has to spawn is not part of the sources: the run    *)
(* loop (Start, StartedBegin .. StoppedEnd) follows section 4.4 of the     *)
(* design document.                                                        *)
(***************************************************************************)
EXTENDS Integers, Sequences, FiniteSets, TLC

\* ---------------------------------------------------------------- bounds
NumSenders == 2        \* tasks that hold a clone of the Addr
MaxSends   == 3        \* sends the senders issue in all
MaxMsgData == 1        \* Msg::new(d), d in 1..MaxMsgData
MailboxCap == 2        \* buffer of the mailbox channel (chosen by start)

\* ------------------------------------------------------------- constants
StopCap  == 1          \* the Stop channel is a single-slot channel
InitData == 0          \* Foo::new(0)

Senders == 1 .. NumSenders

RECURSIVE SumOver(_, _)
SumOver(f, S) ==
  IF S = {} THEN 0
  ELSE LET x == CHOOSE y \in S : TRUE IN f[x] + SumOver(f, S \ {x})

\* The messages the senders choose from: Msg { data } of the test module, a
\* message whose handler calls ctx.stop() once, and one whose handler calls it
\* twice in succession.
Payloads ==
  [kind : {"Msg"}, data : 1 .. MaxMsgData] \cup [kind : {"Stop", "StopTwice"}, data : {0}]

None == [kind |-> "None", data |-> 0]

VARIABLES
  state,        \* lifecycle of the actor: Created, Starting, Running, Stopping, Stopped
  pc,           \* position of the run-loop task
  data,         \* Foo.data, the actor's state
  mailbox,      \* queue of envelopes (tx / rx of Inner.tx)
  stopLen,      \* number of () waiting in the Stop channel (Inner.stop_tx)
  rxOpen,       \* the receivers are alive: the channels are open
  running,      \* executions that touch the actor: hooks and handlers in progress
  cur,          \* id of the envelope whose handle() the run loop awaits
  spc,          \* per sender: "idle" or "sending" (suspended in tx.send)
  pending,      \* per sender: the envelope its send is enqueueing
  sentCount,    \* per sender: sends issued so far
  innerRes,     \* per sender: result of the last tx.send: Ok, Err or NoRes
  ret,          \* per sender: what the last Addr::send returned to its caller
  handled,      \* history: ids of the envelopes dispatched to a handler, in order
  accepted,     \* history, per sender: the envelopes the mailbox took
  startedCount, \* history: invocations of Actor::started
  stoppedCount, \* history: invocations of Actor::stopped
  \* --- Arc (solutions/class4/a-arc-sol/src/lib.rs)
  counter,      \* ArcInner.counter
  allocated,    \* the ArcInner allocation exists (Box::into_raw .. Box::from_raw)
  frees,        \* history: times drop(Box::from_raw(..)) ran
  handles,      \* per thread: Arc handles it owns
  apc,          \* per thread: "run", or "free" between fetch_sub and the free
  reading,      \* per thread: a read of inner.data is issued and not yet performed
  uaf,          \* history: an access touched the allocation after it was freed
  clones,       \* history: clone calls so far
  \* --- Tree (solutions/class2/a-binary-tree-sol/src/tree.rs)
  nodes,        \* the heap: node id -> Node {value, parent, left, right}; 0 is None
  root,         \* Tree.root
  len,          \* Tree.len
  last,         \* the last insert or remove call: [op, arg, res]
  inserts,      \* history: insert calls so far
  removes,      \* history: remove calls so far
  iterState,    \* "none", "iterating" (an Iter borrows the tree), "done", "overflow"
  iterNode,     \* Iter.node
  iterLen,      \* Iter.len
  yielded,      \* history: the values next() returned, in order
  \* --- BigUInt (solutions/class1/c-big-uint-sol/src/big_uint.rs)
  acc,          \* a BigUInt of the caller: BigUInt.inner, least significant limb first
  arg,          \* a second BigUInt of the caller
  out,          \* the last operator call: [op, a, b, status, res, rem]
  div           \* the locals of a running div_rem: [pc, lhs, rhs, shift, ans, which]

arcVars == <<counter, allocated, frees, handles, apc, reading, uaf, clones>>

actorAllVars == <<state, pc, data, mailbox, stopLen, rxOpen, running, cur, spc,
                  pending, sentCount, innerRes, ret, handled, accepted,
                  startedCount, stoppedCount>>

treeVars == <<nodes, root, len, last, inserts, removes, iterState, iterNode, iterLen,
              yielded>>

bigVars == <<acc, arg, out, div>>

otherVars == <<arcVars, treeVars, bigVars>>
notArcVars == <<actorAllVars, treeVars, bigVars>>
notTreeVars == <<actorAllVars, arcVars, bigVars>>
notBigVars == <<actorAllVars, arcVars, treeVars>>

vars == <<actorAllVars, otherVars>>

\* ==================================================================== Arc
NumThreads == 3        \* threads that can own handles
MaxClones  == 2        \* clone calls in all

\* isize::MAX is 2^63 - 1; the largest 32-bit number stands for it here: both
\* lie beyond every count the bounded runs reach.
IsizeMax == 2147483647

ArcThreads == 1 .. NumThreads

\* Arc::new(data) on thread 1: counter = 1, one handle.
ArcInit ==
  /\ counter = 1
  /\ allocated = TRUE
  /\ frees = 0
  /\ handles = [t \in ArcThreads |-> IF t = 1 THEN 1 ELSE 0]
  /\ apc = [t \in ArcThreads |-> "run"]
  /\ reading = [t \in ArcThreads |-> FALSE]
  /\ uaf = FALSE
  /\ clones = 0

\* =================================================================== Tree
MaxInserts == 5        \* insert calls in all
MaxRemoves == 1        \* remove calls in all
MaxValue   == 4        \* values are 1 .. MaxValue

TreeValuesDomain == 1 .. MaxValue

NoCall == [op |-> "none", arg |-> 0, res |-> "none"]

\* Tree::new(): no root, len 0; no iterator.
TreeInit ==
  /\ nodes = <<>>
  /\ root = 0
  /\ len = 0
  /\ last = NoCall
  /\ inserts = 0
  /\ removes = 0
  /\ iterState = "none"
  /\ iterNode = 0
  /\ iterLen = 0
  /\ yielded = <<>>

\* ================================================================ BigUInt
MaxLimbs == 2          \* limbs of a BigUInt the caller holds

\* A limb is a u64; the model keeps the limb-wise arithmetic and scales the
\* width of a limb to LimbBits bits.
LimbBits == 2

Base == 2 ^ LimbBits
Limbs == 0 .. Base - 1

\* BigUInt::zero() and BigUInt::one()
Zero == <<>>
One == <<1>>

NoOut == [op |-> "none", a |-> Zero, b |-> Zero, status |-> "none", res |-> Zero,
          rem |-> Zero]
NoDiv == [pc |-> "idle", lhs |-> Zero, rhs |-> Zero, shift |-> Zero, ans |-> Zero,
          which |-> "none"]

\* The caller holds two zeros and has called nothing.
BigIdle ==
  /\ acc = Zero
  /\ arg = Zero
  /\ out = NoOut
  /\ div = NoDiv

\* The programs other than the actor, as constructed.
OthersIdle == ArcInit /\ TreeInit /\ BigIdle

\* ================================================================== actor


actorVars  == <<state, pc, data, stopLen, rxOpen, running, cur, handled,
                startedCount, stoppedCount>>
senderVars == <<spc, pending, sentCount, innerRes, ret, accepted>>

NoId == <<0, 0>>

\* ------------------------------------------------------------- envelopes
\* Box::new(Message { msg: Some(msg) }): the envelope of the n-th send of s.
NewEnvelopeEmpty(s, n, m) == [id |-> <<s, n>>, msg |-> [kind |-> "None", data |-> 0]]
NewEnvelope(s, n, m) == [id |-> <<s, n>>, msg |-> m]

\* No envelope: the Box has been moved into the channel or dropped with the error.
NoEnvelope == [id |-> NoId, msg |-> None]

\* What Handler::handle does for a message, as a list of steps.
\* Handler<Msg> for Foo: self.data += msg.data.
\* Handler<Check> for Foo: assert_eq!(self.data, msg.data).
HandlerOps(m) ==
  IF m.kind = "Msg" THEN <<"add">>
  ELSE IF m.kind = "Check" THEN <<"check">>
  ELSE IF m.kind = "Stop" THEN <<"stop">>
  ELSE <<"stop", "stop">>

\* Envelope::handle: act.handle(self.msg.take().unwrap(), ctx).await
EnvelopeExec(e) == [who |-> "handle", id |-> e.id, msg |-> e.msg, ops |-> HandlerOps(e.msg)]

HookExec(h) == [who |-> h, id |-> NoId, msg |-> None, ops |-> <<>>]

\* One step of an execution: drop the step; the execution is over after its last.
Progress(h) ==
  IF Len(h.ops) <= 1 THEN running \ {h}
  ELSE (running \ {h}) \cup {[h EXCEPT !.ops = Tail(h.ops)]}

\* Envelope::handle returns when the handler it awaits has completed.
EnvelopeReturnsEarly(id) == TRUE
EnvelopeReturns(id) == \A h \in running : h.id # id

\* --------------------------------------------------------------- channels
\* tokio mpsc Sender::send on an open channel with room: push at the back.
MailboxPushFront(q, e) == <<e>> \o q
MailboxPushLossy(q, e) == IF q = <<>> THEN <<e>> ELSE q
MailboxPush(q, e) == Append(q, e)

\* Sender::send can complete: the channel is closed (Err) or has room (Ok);
\* otherwise the caller stays suspended.
TxCanComplete == ~rxOpen \/ Len(mailbox) < MailboxCap
StopTxCanComplete == ~rxOpen \/ stopLen < StopCap

\* Addr::send / Inner::send: `let _ = self.tx.send(..).await;` returns ().
AddrSendReturnResult(r) == r
AddrSendReturn(r) == "Unit"

ActorInit ==
  /\ state = "Created"
  /\ pc = "none"
  /\ data = InitData
  /\ mailbox = <<>>
  /\ stopLen = 0
  /\ rxOpen = FALSE
  /\ running = {}
  /\ cur = NoId
  /\ spc = [s \in Senders |-> "idle"]
  /\ pending = [s \in Senders |-> NoEnvelope]
  /\ sentCount = [s \in Senders |-> 0]
  /\ innerRes = [s \in Senders |-> "NoRes"]
  /\ ret = [s \in Senders |-> "NoRet"]
  /\ handled = <<>>
  /\ accepted = [s \in Senders |-> <<>>]
  /\ startedCount = 0
  /\ stoppedCount = 0

\* Every program as constructed.
Init == ActorInit /\ OthersIdle

\* --------------------------------------------------------------- run loop
\* Actor::start: creates the channels, spawns the run-loop task, returns the Addr.
Start ==
  /\ state = "Created"
  /\ state' = "Starting"
  /\ pc' = "spawned"
  /\ rxOpen' = TRUE
  /\ UNCHANGED <<data, mailbox, stopLen, running, cur, handled, startedCount, stoppedCount>>
  /\ UNCHANGED senderVars
  /\ UNCHANGED otherVars

\* The task calls act.started(&mut ctx).
StartedBegin ==
  /\ pc = "spawned"
  /\ pc' = "started"
  /\ running' = running \cup {HookExec("started")}
  /\ startedCount' = startedCount + 1
  /\ UNCHANGED <<state, data, mailbox, stopLen, rxOpen, cur, handled, stoppedCount>>
  /\ UNCHANGED senderVars
  /\ UNCHANGED otherVars

\* started returns: Starting -> Running, the loop waits for an envelope or a stop.
StartedEnd ==
  /\ pc = "started"
  /\ running' = running \ {HookExec("started")}
  /\ state' = "Running"
  /\ pc' = "wait"
  /\ UNCHANGED <<data, mailbox, stopLen, rxOpen, cur, handled, startedCount, stoppedCount>>
  /\ UNCHANGED senderVars
  /\ UNCHANGED otherVars

\* Step 2 of the loop: an envelope is ready and no stop has been requested.
DispatchReadyAnytime == pc \in {"started", "wait"} /\ stopLen = 0 /\ mailbox # <<>>
DispatchReady == pc = "wait" /\ stopLen = 0 /\ mailbox # <<>>

\* The loop takes the head of the mailbox, calls its handle() and awaits it.
LoopDispatch ==
  /\ DispatchReady
  /\ running' = running \cup {EnvelopeExec(Head(mailbox))}
  /\ mailbox' = Tail(mailbox)
  /\ handled' = Append(handled, Head(mailbox).id)
  /\ cur' = Head(mailbox).id
  /\ pc' = IF pc = "wait" THEN "handle" ELSE pc
  /\ UNCHANGED <<state, data, stopLen, rxOpen, startedCount, stoppedCount>>
  /\ UNCHANGED senderVars
  /\ UNCHANGED otherVars

\* The awaited Envelope::handle returns: back to step 1.
LoopReturn ==
  /\ pc = "handle"
  /\ EnvelopeReturns(cur)
  /\ pc' = "wait"
  /\ cur' = NoId
  /\ UNCHANGED <<state, data, mailbox, stopLen, rxOpen, running, handled,
                 startedCount, stoppedCount>>
  /\ UNCHANGED senderVars
  /\ UNCHANGED otherVars

\* Step 3 of the loop: a stop request is visible at the wait.
StopVisibleAnytime == pc \in {"wait", "handle"} /\ stopLen > 0
StopVisible == pc = "wait" /\ stopLen > 0

LoopRecvStop ==
  /\ StopVisible
  /\ stopLen' = stopLen - 1
  /\ state' = "Stopping"
  /\ pc' = "stopping"
  /\ cur' = NoId
  /\ UNCHANGED <<data, mailbox, rxOpen, running, handled, startedCount, stoppedCount>>
  /\ UNCHANGED senderVars
  /\ UNCHANGED otherVars

\* The task calls act.stopped(&mut ctx).
StoppedBegin ==
  /\ pc = "stopping"
  /\ pc' = "stopped"
  /\ running' = running \cup {HookExec("stopped")}
  /\ stoppedCount' = stoppedCount + 1
  /\ UNCHANGED <<state, data, mailbox, stopLen, rxOpen, cur, handled, startedCount>>
  /\ UNCHANGED senderVars
  /\ UNCHANGED otherVars

\* stopped returns, the task exits: the actor and both receivers are dropped,
\* which closes the channels and discards what they hold.
\* ExitAfterStopped: where the task goes when stopped has returned.
NextAfterStopped == "wait"
ExitAfterStopped == "exit"

StoppedEnd ==
  /\ pc = "stopped"
  /\ running' = running \ {HookExec("stopped")}
  /\ pc' = ExitAfterStopped
  /\ state' = IF ExitAfterStopped = "exit" THEN "Stopped" ELSE "Running"
  /\ rxOpen' = (ExitAfterStopped # "exit")
  /\ mailbox' = IF ExitAfterStopped = "exit" THEN <<>> ELSE mailbox
  /\ stopLen' = IF ExitAfterStopped = "exit" THEN 0 ELSE stopLen
  /\ UNCHANGED <<data, cur, handled, startedCount, stoppedCount>>
  /\ UNCHANGED senderVars
  /\ UNCHANGED otherVars

\* --------------------------------------------------------------- handlers
\* Handler<Msg> for Foo: self.data += msg.data
HandlerAdd(h) ==
  /\ h \in running
  /\ h.ops # <<>>
  /\ Head(h.ops) = "add"
  /\ data' = data + h.msg.data
  /\ running' = Progress(h)
  /\ UNCHANGED <<state, pc, mailbox, stopLen, rxOpen, cur, handled, startedCount, stoppedCount>>
  /\ UNCHANGED senderVars
  /\ UNCHANGED otherVars

\* Context::stop: let _ = self.inner.stop_tx.send(()).await
CtxStop(h) ==
  /\ h \in running
  /\ h.ops # <<>>
  /\ Head(h.ops) = "stop"
  /\ StopTxCanComplete
  /\ stopLen' = IF rxOpen /\ stopLen < StopCap THEN stopLen + 1 ELSE stopLen
  /\ running' = Progress(h)
  /\ UNCHANGED <<state, pc, data, mailbox, rxOpen, cur, handled, startedCount, stoppedCount>>
  /\ UNCHANGED senderVars
  /\ UNCHANGED otherVars

\* ---------------------------------------------------------------- senders
\* Addr::send(msg) -> Inner::send(msg): builds the envelope and calls tx.send.
SendCall(s, m) ==
  /\ state # "Created"
  /\ spc[s] = "idle"
  /\ SumOver(sentCount, Senders) < MaxSends
  /\ sentCount' = [sentCount EXCEPT ![s] = @ + 1]
  /\ pending' = [pending EXCEPT ![s] = NewEnvelope(s, sentCount[s] + 1, m)]
  /\ spc' = [spc EXCEPT ![s] = "sending"]
  /\ innerRes' = [innerRes EXCEPT ![s] = "NoRes"]
  /\ ret' = [ret EXCEPT ![s] = "NoRet"]
  /\ UNCHANGED <<accepted, mailbox>>
  /\ UNCHANGED actorVars
  /\ UNCHANGED otherVars

\* tx.send(..).await completes, its Result is dropped, send returns.
SendComplete(s) ==
  /\ spc[s] = "sending"
  /\ TxCanComplete
  /\ LET r == IF rxOpen THEN "Ok" ELSE "Err" IN
       /\ mailbox' = IF rxOpen THEN MailboxPush(mailbox, pending[s]) ELSE mailbox
       /\ accepted' = IF rxOpen THEN [accepted EXCEPT ![s] = Append(@, pending[s])]
                      ELSE accepted
       /\ innerRes' = [innerRes EXCEPT ![s] = r]
       /\ ret' = [ret EXCEPT ![s] = AddrSendReturn(r)]
  /\ spc' = [spc EXCEPT ![s] = "idle"]
  /\ pending' = [pending EXCEPT ![s] = NoEnvelope]
  /\ UNCHANGED sentCount
  /\ UNCHANGED actorVars
  /\ UNCHANGED otherVars

TaskNext ==
  \/ StartedBegin
  \/ StartedEnd
  \/ LoopDispatch
  \/ LoopReturn
  \/ LoopRecvStop
  \/ StoppedBegin
  \/ StoppedEnd
  \/ \E h \in running : HandlerAdd(h)
  \/ \E h \in running : CtxStop(h)

Next ==
  \/ Start
  \/ TaskNext
  \/ \E s \in Senders, m \in Payloads : SendCall(s, m)
  \/ \E s \in Senders : SendComplete(s)

Spec == Init /\ [][Next]_vars

\* The scheduler runs the spawned task whenever it can take a step.
FairSpec == Spec /\ WF_vars(TaskNext)

\* ------------------------------------------------------- the test scenario
\* simple_test: one task sends Msg and Check messages through one Addr.
TestSenders == {1}

\* Check::new(c): every value the data can have, right or wrong.
CheckValues == 0 .. InitData + MaxSends * MaxMsgData

TestPayloads ==
  [kind : {"Msg"}, data : 1 .. MaxMsgData] \cup [kind : {"Check"}, data : CheckValues]

\* assert_eq!(self.data, msg.data)
AssertNe(a, b) == a # b
AssertEq(a, b) == a = b

\* Handler<Check> for Foo: the assertion passes, or it panics and the task
\* unwinds: the actor and the receivers are dropped, the channels close.
HandlerCheck(h) ==
  /\ h \in running
  /\ h.ops # <<>>
  /\ Head(h.ops) = "check"
  /\ IF AssertEq(data, h.msg.data)
     THEN /\ running' = Progress(h)
          /\ UNCHANGED <<pc, mailbox, stopLen, rxOpen, cur>>
     ELSE /\ running' = {}
          /\ pc' = "panicked"
          /\ cur' = NoId
          /\ rxOpen' = FALSE
          /\ mailbox' = <<>>
          /\ stopLen' = 0
  /\ UNCHANGED <<state, data, handled, startedCount, stoppedCount>>
  /\ UNCHANGED senderVars
  /\ UNCHANGED otherVars

TestTaskNext ==
  \/ StartedBegin
  \/ StartedEnd
  \/ LoopDispatch
  \/ LoopReturn
  \/ \E h \in running : HandlerAdd(h)
  \/ \E h \in running : HandlerCheck(h)

TestNext ==
  \/ Start
  \/ TestTaskNext
  \/ \E s \in TestSenders, m \in TestPayloads : SendCall(s, m)
  \/ \E s \in TestSenders : SendComplete(s)

TestSpec == Init /\ [][TestNext]_vars

\* The scheduler runs the spawned task, and the sending task runs its sends.
TestFairSpec ==
  /\ TestSpec
  /\ WF_vars(TestTaskNext)
  /\ WF_vars(\E s \in TestSenders : SendComplete(s))


\* Ordering of the fetch_sub in drop.  Relaxed is no release: accesses of
\* inner.data that precede the drop in program order are not ordered before
\* the decrement, so the free of another thread may come before them.
FetchSubOrdering == "Relaxed"

PriorAccessesOrdered(t) == FetchSubOrdering = "Relaxed" \/ ~reading[t]

\* Drop for Arc: `if inner.counter.fetch_sub(1, ..) != 1 { return; }`
FreesOn(old) == old = 1

\* Clone for Arc: fetch_add(1, Relaxed), abort if the count was >= isize::MAX;
\* the new handle goes to thread u (t itself, or a thread t spawns with it).
ArcClone(t, u) ==
  /\ handles[t] >= 1
  /\ apc[t] = "run"
  /\ clones < MaxClones
  /\ clones' = clones + 1
  /\ counter' = counter + 1
  /\ uaf' = (uaf \/ ~allocated)
  /\ IF counter >= IsizeMax
     THEN apc' = [x \in ArcThreads |-> "aborted"] /\ UNCHANGED handles
     ELSE handles' = [handles EXCEPT ![u] = @ + 1] /\ UNCHANGED apc
  /\ UNCHANGED <<allocated, frees, reading>>
  /\ UNCHANGED notArcVars

\* Deref for Arc: the thread issues a read of inner.data ..
ArcDerefIssue(t) ==
  /\ handles[t] >= 1
  /\ apc[t] = "run"
  /\ ~reading[t]
  /\ reading' = [reading EXCEPT ![t] = TRUE]
  /\ UNCHANGED <<counter, allocated, frees, handles, apc, uaf, clones>>
  /\ UNCHANGED notArcVars

\* .. and the read takes effect.
ArcDerefPerform(t) ==
  /\ reading[t]
  /\ reading' = [reading EXCEPT ![t] = FALSE]
  /\ uaf' = (uaf \/ ~allocated)
  /\ UNCHANGED <<counter, allocated, frees, handles, apc, clones>>
  /\ UNCHANGED notArcVars

\* Drop for Arc, first half: fetch_sub(1, Relaxed); return unless it was 1.
ArcDropDec(t) ==
  /\ handles[t] >= 1
  /\ apc[t] = "run"
  /\ PriorAccessesOrdered(t)
  /\ counter' = counter - 1
  /\ handles' = [handles EXCEPT ![t] = @ - 1]
  /\ apc' = [apc EXCEPT ![t] = IF FreesOn(counter) THEN "free" ELSE "run"]
  /\ uaf' = (uaf \/ ~allocated)
  /\ UNCHANGED <<allocated, frees, reading, clones>>
  /\ UNCHANGED notArcVars

\* Drop for Arc, second half: fence(Acquire); drop(Box::from_raw(..)).  The
\* thread's own reads precede its free.
ArcFree(t) ==
  /\ apc[t] = "free"
  /\ ~reading[t]
  /\ allocated' = FALSE
  /\ frees' = frees + 1
  /\ apc' = [apc EXCEPT ![t] = "run"]
  /\ UNCHANGED <<counter, handles, reading, uaf, clones>>
  /\ UNCHANGED notArcVars

ArcNext ==
  \/ \E t, u \in ArcThreads : ArcClone(t, u)
  \/ \E t \in ArcThreads : ArcDerefIssue(t)
  \/ \E t \in ArcThreads : ArcDerefPerform(t)
  \/ \E t \in ArcThreads : ArcDropDec(t)
  \/ \E t \in ArcThreads : ArcFree(t)

ArcSpec == Init /\ [][ArcNext]_vars

\* ------------------------------------------------------------------ Tree
\* Node::new and Node::with_parent
NodeNew(v) == [value |-> v, parent |-> 0, left |-> 0, right |-> 0]
NodeWithParent(v, p) == [value |-> v, parent |-> p, left |-> 0, right |-> 0]

\* The nodes that strong references (Rc) keep alive, from node c down.
RECURSIVE Reach(_, _)
Reach(N, c) ==
  IF c = 0 THEN {} ELSE {c} \cup Reach(N, N[c].left) \cup Reach(N, N[c].right)

\* Node::parent: the Weak upgrades while the parent is alive.
NodeParent(N, r, n) ==
  IF N[n].parent # 0 /\ N[n].parent \in Reach(N, r) THEN N[n].parent ELSE 0

\* Node::is_left_child of node n while the RefCells in mutBorrowed are mutably
\* borrowed: None without a parent AND when the parent has no left child;
\* otherwise the VALUES of the parent's left child and of n are compared.
IsLeftChild(N, r, n, mutBorrowed) ==
  LET p == NodeParent(N, r, n) IN
  IF p = 0 THEN "None"
  ELSE IF p \in mutBorrowed THEN "BorrowError"
  ELSE IF N[p].left = 0 THEN "None"
  ELSE IF N[p].left \in mutBorrowed THEN "BorrowError"
  ELSE IF N[N[p].left].value = N[n].value THEN "true" ELSE "false"

\* Node::min_node
RECURSIVE MinNode(_, _)
MinNode(N, c) == IF N[c].left = 0 THEN c ELSE MinNode(N, N[c].left)

\* The inner loop of remove: the rightmost node below c.
RECURSIVE RightmostNode(_, _)
RightmostNode(N, c) == IF N[c].right = 0 THEN c ELSE RightmostNode(N, N[c].right)

\* Tree::contains
RECURSIVE ContainsFrom(_, _, _)
ContainsFrom(N, c, v) ==
  IF v = N[c].value THEN TRUE
  ELSE LET child == IF v < N[c].value THEN N[c].left ELSE N[c].right IN
       IF child = 0 THEN FALSE ELSE ContainsFrom(N, child, v)

Contains(N, r, v) == IF r = 0 THEN FALSE ELSE ContainsFrom(N, r, v)

\* Tree::insert below the root: [res, nodes]
RECURSIVE InsertFrom(_, _, _)
InsertFrom(N, c, v) ==
  IF v = N[c].value THEN [res |-> "false", nodes |-> N]
  ELSE LET child == IF v < N[c].value THEN N[c].left ELSE N[c].right
           new == Len(N) + 1
       IN IF child # 0 THEN InsertFrom(N, child, v)
          ELSE [res |-> "true",
                nodes |-> Append(IF v < N[c].value THEN [N EXCEPT ![c].left = new]
                                                   ELSE [N EXCEPT ![c].right = new],
                                 NodeWithParent(v, c))]

\* The search loop of remove: the node that holds v, or 0.
RECURSIVE FindFrom(_, _, _)
FindFrom(N, c, v) ==
  IF c = 0 THEN 0
  ELSE IF v = N[c].value THEN c
  ELSE FindFrom(N, IF v < N[c].value THEN N[c].left ELSE N[c].right, v)

\* remove, lines 199-217: with a right child, the value is swapped with the one
\* of the rightmost node below it and that node becomes the cursor.
SwapValues(N, a, b) == [N EXCEPT ![a].value = N[b].value, ![b].value = N[a].value]

\* remove, lines 219-238, with the cursor c mutably borrowed: [res, nodes, root]
Unlink(N, r, c) ==
  LET p == NodeParent(N, r, c) IN
  IF p = 0
  THEN \* `cursor.borrow()` at line 236 while `c` of line 219 is alive
       [res |-> "panic", nodes |-> N, root |-> r]
  ELSE LET l == N[c].left
           N1 == [N EXCEPT ![c].left = 0]
           isLeft == IsLeftChild(N1, r, c, {c})
       IN IF isLeft \notin {"true", "false"}
          THEN [res |-> "panic", nodes |-> N, root |-> r]
          ELSE LET N2 == IF isLeft = "true" THEN [N1 EXCEPT ![p].left = l]
                                             ELSE [N1 EXCEPT ![p].right = l]
                   N3 == IF l # 0 THEN [N2 EXCEPT ![l].parent = p] ELSE N2
               IN [res |-> "true", nodes |-> N3, root |-> r]

\* Tree::remove: [res, nodes, root]
RemoveResult(N, r, v) ==
  LET c == FindFrom(N, r, v) IN
  IF c = 0 THEN [res |-> "false", nodes |-> N, root |-> r]
  ELSE IF N[c].right # 0
       THEN LET m == RightmostNode(N, N[c].right) IN Unlink(SwapValues(N, c, m), r, m)
       ELSE Unlink(N, r, c)

Callable == last.res # "panic" /\ iterState # "iterating"

ResetIter == iterState' = "none" /\ iterNode' = 0 /\ iterLen' = 0 /\ yielded' = <<>>

\* Tree::insert(v)
TreeInsert(v) ==
  /\ Callable
  /\ inserts < MaxInserts
  /\ inserts' = inserts + 1
  /\ len' = len + 1
  /\ IF root = 0
     THEN /\ nodes' = Append(nodes, NodeNew(v))
          /\ root' = Len(nodes) + 1
          /\ last' = [op |-> "insert", arg |-> v, res |-> "true"]
     ELSE LET r == InsertFrom(nodes, root, v) IN
          /\ nodes' = r.nodes
          /\ root' = root
          /\ last' = [op |-> "insert", arg |-> v, res |-> r.res]
  /\ ResetIter
  /\ UNCHANGED removes
  /\ UNCHANGED notTreeVars

\* Tree::remove(&v); a panic ends the run.
TreeRemove(v) ==
  /\ Callable
  /\ removes < MaxRemoves
  /\ removes' = removes + 1
  /\ LET r == RemoveResult(nodes, root, v) IN
     /\ nodes' = r.nodes
     /\ root' = r.root
     /\ last' = [op |-> "remove", arg |-> v, res |-> r.res]
     /\ len' = IF r.res = "true" THEN len - 1 ELSE len
  /\ ResetIter
  /\ UNCHANGED inserts
  /\ UNCHANGED notTreeVars

\* Tree::iter
TreeIter ==
  /\ Callable
  /\ iterState = "none"
  /\ iterState' = "iterating"
  /\ iterNode' = IF root = 0 THEN 0 ELSE MinNode(nodes, root)
  /\ iterLen' = len
  /\ yielded' = <<>>
  /\ UNCHANGED <<nodes, root, len, last, inserts, removes>>
  /\ UNCHANGED notTreeVars

\* Iter::next, lines 305-313: climb while the cursor is a right child.
RECURSIVE ClimbWhileRight(_, _, _)
ClimbWhileRight(N, r, c) ==
  IF IsLeftChild(N, r, c, {}) = "false" THEN ClimbWhileRight(N, r, NodeParent(N, r, c)) ELSE c

\* Iter::next, lines 301-320: the node after n.
NextNode(N, r, n) ==
  IF N[n].right # 0 THEN MinNode(N, N[n].right)
  ELSE LET c == ClimbWhileRight(N, r, n) IN
       IF IsLeftChild(N, r, c, {}) = "true" THEN NodeParent(N, r, c) ELSE 0

\* Iter::next: None ends the iteration; `self.len -= 1` below zero overflows
\* (a panic in a debug build, a wrap in a release build).
TreeIterNext ==
  /\ iterState = "iterating"
  /\ IF iterNode = 0
     THEN iterState' = "done" /\ UNCHANGED <<iterNode, iterLen, yielded>>
     ELSE IF iterLen = 0
     THEN iterState' = "overflow" /\ UNCHANGED <<iterNode, iterLen, yielded>>
     ELSE /\ yielded' = Append(yielded, nodes[iterNode].value)
          /\ iterLen' = iterLen - 1
          /\ iterNode' = NextNode(nodes, root, iterNode)
          /\ UNCHANGED iterState
  /\ UNCHANGED <<nodes, root, len, last, inserts, removes>>
  /\ UNCHANGED notTreeVars

TreeNext ==
  \/ \E v \in TreeValuesDomain : TreeInsert(v)
  \/ \E v \in TreeValuesDomain : TreeRemove(v)
  \/ TreeIter
  \/ TreeIterNext

TreeSpec == Init /\ [][TreeNext]_vars

\* --------------------------------------------------------------- BigUInt
\* From<u64>: one limb, whatever the value (0 included).
FromU64(x) == <<x>>

\* from_str: "0" gives zero(); any other number gives its limbs, the last one
\* not zero.
Parsed ==
  {v \in UNION {[1 .. n -> Limbs] : n \in 0 .. MaxLimbs} : v = <<>> \/ v[Len(v)] # 0}

\* The values a caller constructs.
Constructed == Parsed \cup {FromU64(x) : x \in Limbs}

\* PartialOrd::partial_cmp: the lengths first, then the limbs from the top.
RECURSIVE CmpFrom(_, _, _)
CmpFrom(a, b, i) ==
  IF i = 0 THEN "Equal"
  ELSE IF a[i] < b[i] THEN "Less"
  ELSE IF a[i] > b[i] THEN "Greater"
  ELSE CmpFrom(a, b, i - 1)

Cmp(a, b) ==
  IF Len(a) < Len(b) THEN "Less"
  ELSE IF Len(a) > Len(b) THEN "Greater"
  ELSE CmpFrom(a, b, Len(a))

Lt(a, b) == Cmp(a, b) = "Less"
Le(a, b) == Cmp(a, b) # "Greater"
Ge(a, b) == Cmp(a, b) # "Less"

\* Add, lines 153-171, with Len(inner) >= Len(rhs): limb i onwards.
RECURSIVE AddLoop(_, _, _, _)
AddLoop(inner, rhs, i, carry) ==
  IF i > Len(inner) THEN (IF carry = 1 THEN Append(inner, 1) ELSE inner)
  ELSE LET s1 == inner[i] + carry
           x1 == s1 % Base
           c1 == s1 \div Base
       IN IF i <= Len(rhs)
          THEN LET s2 == x1 + rhs[i]
               IN AddLoop([inner EXCEPT ![i] = s2 % Base], rhs, i + 1,
                          IF c1 = 1 \/ s2 >= Base THEN 1 ELSE 0)
          ELSE IF c1 = 0 THEN [inner EXCEPT ![i] = x1]
          ELSE AddLoop([inner EXCEPT ![i] = x1], rhs, i + 1, c1)

\* ops::Add for &BigUInt
Add(a, b) == IF Len(a) < Len(b) THEN AddLoop(b, a, 1, 0) ELSE AddLoop(a, b, 1, 0)

\* Sub, lines 202-211: limb i onwards; the last borrow is dropped.
RECURSIVE SubLoop(_, _, _, _)
SubLoop(inner, rhs, i, borrow) ==
  IF i > Len(inner) THEN inner
  ELSE LET x1 == (inner[i] - borrow + Base) % Base
           b1 == IF inner[i] < borrow THEN 1 ELSE 0
       IN IF i <= Len(rhs)
          THEN SubLoop([inner EXCEPT ![i] = (x1 - rhs[i] + Base) % Base], rhs, i + 1,
                       IF b1 = 1 \/ x1 < rhs[i] THEN 1 ELSE 0)
          ELSE IF b1 = 0 THEN [inner EXCEPT ![i] = x1]
          ELSE SubLoop([inner EXCEPT ![i] = x1], rhs, i + 1, b1)

\* Sub, lines 213-215: `while let Some(&0) = inner.last() { inner.pop(); }`
RECURSIVE PopZeros(_)
PopZeros(v) ==
  IF v # <<>> /\ v[Len(v)] = 0 THEN PopZeros(SubSeq(v, 1, Len(v) - 1)) ELSE v

\* ops::Sub for &BigUInt
Sub(a, b) == IF Le(a, b) THEN Zero ELSE PopZeros(SubLoop(a, b, 1, 0))

\* Mul, lines 243-254: self times the limb x, limb j onwards.
RECURSIVE MulLimb(_, _, _, _)
MulLimb(inner, x, j, carry) ==
  IF j > Len(inner) THEN (IF carry > 0 THEN Append(inner, carry) ELSE inner)
  ELSE LET mul == inner[j] * x + carry
       IN MulLimb([inner EXCEPT ![j] = mul % Base], x, j + 1, mul \div Base)

Zeros(n) == [k \in 1 .. n |-> 0]

\* Mul, lines 242-263: the limbs i onwards of rhs.
RECURSIVE MulLoop(_, _, _, _)
MulLoop(self, rhs, i, ans) ==
  IF i > Len(rhs) THEN ans
  ELSE MulLoop(self, rhs, i + 1, Add(ans, Zeros(i - 1) \o MulLimb(self, rhs[i], 1, 0)))

\* ops::Mul for &BigUInt
Mul(a, b) == MulLoop(a, b, 1, Zero)

\* BigUInt::shl_once, limb i onwards.
RECURSIVE ShlLoop(_, _, _)
ShlLoop(v, i, carry) ==
  IF i > Len(v) THEN (IF carry = 1 THEN Append(v, 1) ELSE v)
  ELSE ShlLoop([v EXCEPT ![i] = ((2 * v[i]) % Base) + carry], i + 1, (2 * v[i]) \div Base)

ShlOnce(v) == ShlLoop(v, 1, 0)

\* BigUInt::shr_once, from limb i down; then one zero limb at the top is popped.
RECURSIVE ShrLoop(_, _, _)
ShrLoop(v, i, carry) ==
  IF i = 0 THEN v
  ELSE ShrLoop([v EXCEPT ![i] = (v[i] \div 2) + carry * (Base \div 2)], i - 1, v[i] % 2)

ShrOnce(v) ==
  LET w == ShrLoop(v, Len(v), 0)
  IN IF w # <<>> /\ w[Len(w)] = 0 THEN SubSeq(w, 1, Len(w) - 1) ELSE w

Idle == div.pc = "idle" /\ out.status # "panic"

Call(op, r) == [op |-> op, a |-> acc, b |-> arg, status |-> "ok", res |-> r, rem |-> Zero]

\* The caller constructs a value.
BigLoad(v) ==
  /\ Idle
  /\ acc' = v
  /\ out' = NoOut
  /\ UNCHANGED <<arg, div>>
  /\ UNCHANGED notBigVars

\* The caller exchanges its two values.
BigSwap ==
  /\ Idle
  /\ acc' = arg
  /\ arg' = acc
  /\ out' = NoOut
  /\ UNCHANGED div
  /\ UNCHANGED notBigVars

\* acc = &acc + &arg
BigAdd ==
  /\ Idle
  /\ Len(Add(acc, arg)) <= MaxLimbs
  /\ acc' = Add(acc, arg)
  /\ out' = Call("add", Add(acc, arg))
  /\ UNCHANGED <<arg, div>>
  /\ UNCHANGED notBigVars

\* acc = &acc - &arg
BigSub ==
  /\ Idle
  /\ acc' = Sub(acc, arg)
  /\ out' = Call("sub", Sub(acc, arg))
  /\ UNCHANGED <<arg, div>>
  /\ UNCHANGED notBigVars

\* acc = &acc * &arg
BigMul ==
  /\ Idle
  /\ Len(Mul(acc, arg)) <= MaxLimbs
  /\ acc' = Mul(acc, arg)
  /\ out' = Call("mul", Mul(acc, arg))
  /\ UNCHANGED <<arg, div>>
  /\ UNCHANGED notBigVars

DivOut(status, q, r) ==
  [op |-> "div_rem", a |-> acc, b |-> arg, status |-> status, res |-> q, rem |-> r]

\* acc = &acc / &arg or acc = &acc % &arg: div_rem up to its first loop.
BigDivRem(which) ==
  /\ Idle
  /\ IF arg = <<>>
     THEN out' = DivOut("panic", Zero, Zero) /\ UNCHANGED <<acc, div>>
     ELSE IF Lt(acc, arg)
     THEN /\ out' = DivOut("ok", Zero, acc)
          /\ acc' = IF which = "div" THEN Zero ELSE acc
          /\ UNCHANGED div
     ELSE /\ div' = [pc |-> "shl", lhs |-> acc, rhs |-> arg, shift |-> One, ans |-> Zero,
                     which |-> which]
          /\ out' = DivOut("running", Zero, Zero)
          /\ UNCHANGED acc
  /\ UNCHANGED arg
  /\ UNCHANGED notBigVars

\* div_rem, lines 281-284: one test of `while lhs >= rhs`.  When shl_once
\* leaves rhs as it was, the test has the same outcome for ever.
BigDivShl ==
  /\ div.pc = "shl"
  /\ IF ~Ge(div.lhs, div.rhs) THEN div' = [div EXCEPT !.pc = "loop"]
     ELSE IF ShlOnce(div.rhs) = div.rhs THEN div' = [div EXCEPT !.pc = "diverged"]
     ELSE div' = [div EXCEPT !.rhs = ShlOnce(div.rhs), !.shift = ShlOnce(div.shift)]
  /\ UNCHANGED <<acc, arg, out>>
  /\ UNCHANGED notBigVars

\* div_rem, lines 286-296: one test of the second loop, and the return.
BigDivLoop ==
  /\ div.pc = "loop"
  /\ IF div.lhs # <<>> /\ div.shift # <<>>
     THEN /\ div' = [div EXCEPT
                       !.lhs = IF Ge(div.lhs, div.rhs) THEN Sub(div.lhs, div.rhs) ELSE @,
                       !.ans = IF Ge(div.lhs, div.rhs) THEN Add(div.ans, div.shift) ELSE @,
                       !.rhs = ShrOnce(div.rhs),
                       !.shift = ShrOnce(div.shift)]
          /\ UNCHANGED <<acc, out>>
     ELSE /\ div' = NoDiv
          /\ out' = [out EXCEPT !.status = "ok", !.res = div.ans, !.rem = div.lhs]
          /\ acc' = IF div.which = "div" THEN div.ans ELSE div.lhs
  /\ UNCHANGED arg
  /\ UNCHANGED notBigVars

\* The caller starts with two constructed values.
BigInit ==
  /\ ActorInit
  /\ ArcInit
  /\ TreeInit
  /\ acc \in Constructed
  /\ arg \in Constructed
  /\ out = NoOut
  /\ div = NoDiv

BigNext ==
  \/ \E v \in Constructed : BigLoad(v)
  \/ BigSwap
  \/ BigAdd
  \/ BigSub
  \/ BigMul
  \/ \E which \in {"div", "rem"} : BigDivRem(which)
  \/ BigDivShl
  \/ BigDivLoop

BigSpec == BigInit /\ [][BigNext]_vars

TypeOK ==
  /\ state \in {"Created", "Starting", "Running", "Stopping", "Stopped"}
  /\ pc \in {"none", "spawned", "started", "wait", "handle", "stopping", "stopped", "exit",
            "panicked"}
  /\ data \in Nat
  /\ Len(mailbox) <= MailboxCap
  /\ stopLen \in 0 .. StopCap
  /\ rxOpen \in BOOLEAN
  /\ \A s \in Senders : spc[s] \in {"idle", "sending"} /\ sentCount[s] \in 0 .. MaxSends

\* ------------------------------------------------------------ properties
IsHandler(h) == h.who = "handle"

\* The ids of the envelopes of sender s that reached a handler, in handler order.
HandledFrom(s) == SelectSeq(handled, LAMBDA id : id[1] = s)

RECURSIVE SumMsgData(_)
SumMsgData(q) ==
  IF q = <<>> THEN 0
  ELSE (IF Head(q).msg.kind = "Msg" THEN Head(q).msg.data ELSE 0) + SumMsgData(Tail(q))

\* Every send has returned, the mailbox is drained and the loop is back at its wait.
Quiescent ==
  /\ state = "Running"
  /\ pc = "wait"
  /\ mailbox = <<>>
  /\ running = {}
  /\ \A s \in Senders : spc[s] = "idle"

\* C1: at most one execution touches the actor's state at a time: the hooks
\* started and stopped and the Handler::handle invocations never overlap, and
\* the run loop dequeues nothing while a handler is still in progress.
C1_OneAtATime ==
  /\ Cardinality(running) <= 1
  /\ (\E h \in running : IsHandler(h)) => pc = "handle" /\ (\A h \in running : h.id = cur)
  /\ pc = "wait" => running = {}

\* C1 witness: a handler is in progress while one sender is suspended in send
\* and another envelope is already queued behind it.
C1_Witness ==
  /\ \E h \in running : IsHandler(h)
  /\ mailbox # <<>>
  /\ \E s \in Senders : spc[s] = "sending"

\* C2: per sender, the handlers are invoked on the sender's messages in exactly
\* the order of the sends: the k messages of s handled so far are its sends
\* 1, 2, .., k, in this order, whatever the other senders do.
C2_FifoPerSender ==
  \A s \in Senders :
    /\ HandledFrom(s) = [i \in 1 .. Len(HandledFrom(s)) |-> <<s, i>>]
    /\ Len(HandledFrom(s)) <= Len(accepted[s])
    /\ \A i \in 1 .. Len(accepted[s]) : accepted[s][i].id = <<s, i>>

\* C2 witness: two messages of one sender were handled with a message of
\* another sender handled between them.
C2_Witness ==
  \E s \in Senders :
    /\ Len(handled) >= 3
    /\ handled[1] = <<s, 1>>
    /\ handled[2][1] # s
    /\ handled[3] = <<s, 2>>

\* A handler or hook is positioned at a ctx.stop() call.
AtStop(h) == h.ops # <<>> /\ Head(h.ops) = "stop"

\* A stop has been requested or acted upon already.
StopRequested == stopLen > 0 \/ state \in {"Stopping", "Stopped"}

\* C3: lifecycle exactly-once: started is invoked once, and has returned before
\* any handler is invoked; stopped is invoked at most once, exactly once by
\* the time the actor is Stopped, and no handler is invoked after it.
C3_LifecycleOnce ==
  /\ [](/\ startedCount <= 1
        /\ stoppedCount <= 1
        /\ (state \in {"Running", "Stopping", "Stopped"} => startedCount = 1)
        /\ (handled # <<>> => startedCount = 1 /\ state # "Starting")
        /\ (stoppedCount = 1 => state \in {"Stopping", "Stopped"})
        /\ (state = "Stopped" => stoppedCount = 1))
  /\ [][stoppedCount >= 1 => handled' = handled /\ stoppedCount' = stoppedCount]_vars

\* C3 witness: an actor that handled messages has been stopped: both hooks ran.
C3_Witness ==
  /\ state = "Stopped"
  /\ Len(handled) >= 2
  /\ startedCount = 1
  /\ stoppedCount = 1

C6_StopIdempotent ==
  /\ [](\A h \in running : AtStop(h) /\ StopRequested => ENABLED CtxStop(h))
  /\ [][\A h \in running :
          AtStop(h) /\ StopRequested /\ h \notin running' => UNCHANGED stopLen]_vars

\* C7 (as claimed): Context::stop never suspends its caller: wherever a handler
\* is at a ctx.stop() call the call can return, also with a request pending in
\* the Stop channel; and the call drains and cancels nothing.
C7_StopNeverSuspends ==
  /\ [](\A h \in running : AtStop(h) => ENABLED CtxStop(h))
  /\ [][\A h \in running :
          AtStop(h) /\ h \notin running'
            => UNCHANGED <<mailbox, data, state, pc, handled>>]_vars

\* C8: cancellation is cooperative: a stop request is taken from the Stop
\* channel only at the loop's wait, with no handler in progress; from then on
\* no envelope is dequeued, stopped is invoked, and the loop exits.
C8_CooperativeStop ==
  /\ [][stopLen' < stopLen /\ state = "Running"
          => pc = "wait" /\ running = {} /\ state' = "Stopping"
             /\ mailbox' = mailbox /\ handled' = handled]_vars
  /\ [][state = "Running" /\ state' # "Running" => stopLen' < stopLen]_vars
  /\ [][(state \in {"Stopping", "Stopped"})
          => handled' = handled /\ (\A h \in running' : ~IsHandler(h))]_vars
  /\ [][state = "Stopping" /\ state' # "Stopping"
          => state' = "Stopped" /\ stoppedCount = 1 /\ pc' = "exit"]_vars
  /\ (state = "Stopping" ~> state = "Stopped")

\* C8 witness: the stop was observed with envelopes still queued, which stay
\* queued while stopped runs.
C8_Witness ==
  /\ state = "Stopping"
  /\ pc = "stopped"
  /\ mailbox # <<>>
  /\ Len(handled) >= 2

\* The transitions of the lifecycle state machine and what triggers each.
LifecycleStep ==
  \/ state = "Created" /\ state' = "Starting"
  \/ /\ state = "Starting" /\ state' = "Running"
     /\ HookExec("started") \in running /\ running' = {}
  \/ /\ state = "Running" /\ state' = "Stopping"
     /\ stopLen > 0 /\ stopLen' = stopLen - 1
  \/ /\ state = "Stopping" /\ state' = "Stopped"
     /\ HookExec("stopped") \in running /\ running' = {} /\ pc' = "exit"

\* C9: the lifecycle moves only Starting -> Running (started returns) ->
\* Stopping (a stop request is observed) -> Stopped (stopped returns, the task
\* exits), and nothing leaves Stopped, whatever is sent afterwards.
C9_LifecycleChain ==
  /\ [][state' # state => LifecycleStep]_vars
  /\ [][state = "Stopped" => state' = "Stopped" /\ UNCHANGED actorVars]_vars

\* C9 witness: a send was issued and has returned after the actor had stopped,
\* and the actor is still Stopped.
C9_Witness ==
  /\ state = "Stopped"
  /\ pc = "exit"
  /\ \E s \in Senders : innerRes[s] = "Err" /\ sentCount[s] >= 2

\* C10: no lost updates: once every send has returned and the mailbox has
\* drained, the actor's data is its initial value plus the data of every
\* message the senders sent; with increments of 1 that is plus the number N
\* of messages sent.
C10_NoLostUpdates ==
  Quiescent =>
    /\ data = InitData + SumOver([s \in Senders |-> SumMsgData(accepted[s])], Senders)
    /\ \A s \in Senders : Len(accepted[s]) = sentCount[s]
    /\ (\A s \in Senders : \A i \in 1 .. Len(accepted[s]) :
          accepted[s][i].msg = [kind |-> "Msg", data |-> 1])
         => data = InitData + SumOver(sentCount, Senders)

\* C10 witness: every sender has sent increments of 1 while the others were
\* sending, all sends have returned and the mailbox has drained.
C10_Witness ==
  /\ Quiescent
  /\ \A s \in Senders : sentCount[s] >= 1
  /\ \A s \in Senders : \A i \in 1 .. Len(accepted[s]) :
       accepted[s][i].msg = [kind |-> "Msg", data |-> 1]
  /\ Len(handled) >= 2 /\ handled[1][1] # handled[2][1]
  /\ data = InitData + NumSenders

\* A handler is positioned at the assert_eq! of Handler<Check>.
AtCheck(h) == h.ops # <<>> /\ Head(h.ops) = "check"

\* The data a handler of the message with this id has to find: the initial data
\* plus the data of the Msg messages sent before it through the same Addr.
DataBefore(id) == InitData + SumMsgData(SubSeq(accepted[id[1]], 1, id[2] - 1))

SentMsg(id) == accepted[id[1]][id[2]].msg

\* C19: every envelope is consumed exactly once: no envelope is dispatched
\* twice, a dispatched envelope is no longer in the mailbox, every queued
\* envelope still holds its message (take().unwrap() finds Some), and the
\* handler receives exactly the message that was sent.
C19_EnvelopeOnce ==
  /\ \A i, j \in 1 .. Len(handled) : i # j => handled[i] # handled[j]
  /\ \A i \in 1 .. Len(mailbox) :
       /\ mailbox[i].msg # None
       /\ mailbox[i].msg = SentMsg(mailbox[i].id)
       /\ \A j \in 1 .. Len(handled) : handled[j] # mailbox[i].id
       /\ \A j \in 1 .. Len(mailbox) : i # j => mailbox[i].id # mailbox[j].id
  /\ \A h \in running :
       IsHandler(h) => /\ h.msg # None
                       /\ h.msg = SentMsg(h.id)
                       /\ \E j \in 1 .. Len(handled) : handled[j] = h.id

\* C19 witness: a handler holds the message of an envelope that was taken from
\* the mailbox while two more envelopes are queued.
C19_Witness ==
  /\ \E h \in running : IsHandler(h) /\ h.msg.kind = "Msg"
  /\ Len(mailbox) = 2
  /\ Len(handled) = 1

\* ------------------------------------------------------------------- Arc
RECURSIVE SumHandles(_)
SumHandles(S) ==
  IF S = {} THEN 0
  ELSE LET t == CHOOSE x \in S : TRUE IN handles[t] + SumHandles(S \ {t})

LiveHandles == SumHandles(ArcThreads)

\* A handle is in use while its owner holds it, and until the accesses the
\* owner made through it have taken effect.
HandleInUse == LiveHandles > 0 \/ \E t \in ArcThreads : reading[t]

\* The counting alone: the counter equals the number of live handles, and the
\* allocation is freed at most once and only when that number is zero.
ArcCounting ==
  /\ counter = LiveHandles
  /\ frees <= 1
  /\ allocated <=> frees = 0
  /\ ~allocated => LiveHandles = 0

\* C12: reference counting is safe under every interleaving of clone and drop
\* across threads: the counter equals the number of live handles, the
\* allocation is freed exactly once, when the last handle is dropped, and no
\* access through a handle ever touches it after the free (no use-after-free,
\* no double free).
C12_ArcSafe ==
  /\ ArcCounting
  /\ ~allocated => ~HandleInUse
  /\ ~uaf

\* ------------------------------------------------------------------ Tree
\* The values held by the nodes of the tree.
TreeValues(N, r) == {N[n].value : n \in Reach(N, r)}

RemoveStep(v) == removes' = removes + 1 /\ last'.arg = v
InsertStep(v) == inserts' = inserts + 1 /\ last'.arg = v

\* C13: remove(v) returns true if an equal value is in the tree and false
\* otherwise, without panicking, wherever the value sits; afterwards
\* contains(v) is false and contains(w) is as before for every other value w.
C13_RemoveStep ==
  \A v \in TreeValuesDomain :
    RemoveStep(v) =>
      /\ last'.res = (IF v \in TreeValues(nodes, root) THEN "true" ELSE "false")
      /\ ~Contains(nodes', root', v)
      /\ \A w \in TreeValuesDomain \ {v} :
           Contains(nodes', root', w) = Contains(nodes, root, w)

C13_Remove == [][C13_RemoveStep]_vars

RECURSIVE Ascending(_)
Ascending(q) == Len(q) < 2 \/ (q[1] < q[2] /\ Ascending(Tail(q)))

\* C14: after any sequence of insert and remove calls, iter() yields every
\* value in the tree exactly once, in strictly ascending order, then None.
C14_IterSorted ==
  /\ iterState # "overflow"
  /\ iterState = "done" =>
       /\ Ascending(yielded)
       /\ {yielded[i] : i \in 1 .. Len(yielded)} = TreeValues(nodes, root)

\* C15: insert(v) returns true if there was no equal value in the tree and
\* false otherwise; afterwards contains(v) is true, and a false return leaves
\* the set of values in the tree as it was.
C15_InsertStep ==
  \A v \in TreeValuesDomain :
    InsertStep(v) =>
      /\ last'.res = (IF v \in TreeValues(nodes, root) THEN "false" ELSE "true")
      /\ Contains(nodes', root', v)
      /\ last'.res = "false" => TreeValues(nodes', root') = TreeValues(nodes, root)

C15_Insert == [][C15_InsertStep]_vars

\* --------------------------------------------------------------- BigUInt
\* The number a limb vector stands for.
RECURSIVE Val(_)
Val(v) == IF v = <<>> THEN 0 ELSE v[1] + Base * Val(Tail(v))

\* C16: for every a and every b # 0, q = &a / &b and r = &a % &b satisfy
\* a = q*b + r with r < b (q = 0 and r = a when a < b), and div_rem
\* terminates; for b = 0 both operators panic with "division by zero".
C16_DivRem ==
  /\ div.pc # "diverged"
  /\ out.op = "div_rem" =>
       /\ Val(out.b) = 0 <=> out.status = "panic"
       /\ out.status = "ok" =>
            /\ Val(out.a) = Val(out.res) * Val(out.b) + Val(out.rem)
            /\ Val(out.rem) < Val(out.b)
            /\ Val(out.a) < Val(out.b) => out.res = Zero /\ out.rem = out.a

\* C17: subtraction saturates at zero: &a - &b is the BigUInt zero when b is
\* bigger than or equal to a, and the exact difference a - b otherwise.
C17_SubSaturates ==
  out.op = "sub" =>
    IF Val(out.b) >= Val(out.a) THEN out.res = Zero
    ELSE Val(out.res) = Val(out.a) - Val(out.b)

\* C18: for every a and b, &a * &b is == to the BigUInt of the product a*b,
\* also when an operand is zero and when operands have several limbs.  The
\* derived == compares the limb vectors, and the BigUInt of a number has no
\* zero limb at the top (the BigUInt of 0 is zero()).
C18_MulProduct ==
  out.op = "mul" =>
    /\ Val(out.res) = Val(out.a) * Val(out.b)
    /\ PopZeros(out.res) = out.res

================================================================================
